---- MODULE Spec2Model ----
(***************************************************************************)
(* ScreenPrompt: the global input interception subsystem.                  *)
(*                                                                         *)
(* Two low-level hooks (keyboard_hook.rs, mouse_hook.rs) share one         *)
(* lifecycle pattern: install_hook / uninstall_hook run on controller      *)
(* threads under an install lock, a spawned hook thread registers the OS   *)
(* hook, reports through a channel and pumps messages, and the OS calls    *)
(* the hook procedure on that thread.                                      *)
(*                                                                         *)
(* The two hook types keep disjoint statics and disjoint locks, so a       *)
(* behaviour of the model follows one of them: hookType is chosen in Init  *)
(* and never changes.  HOOK_HANDLE / HOOK_THREAD_ID stand for              *)
(* KB_HOOK_HANDLE / KB_HOOK_THREAD_ID when hookType = "kb".                *)
(*                                                                         *)
(* 32-bit message parameters are kept as a pair of 16-bit words            *)
(* [hi, lo], since a full 32-bit word does not fit a TLC integer.          *)
(***************************************************************************)
EXTENDS Integers, Sequences, FiniteSets, TLC

\* ------------------------------------------------------------- constants
WM_KEYDOWN    == 256
WM_MOUSEWHEEL == 522
VK_ESCAPE     == 27

\* ---------------------------------------------------------------- bounds
\* Total number of install()/uninstall() calls issued in one behaviour.
MaxCalls == 3

HookTypes   == {"kb", "mouse"}
Controllers == {"c1", "c2", "c3"}
NoCtrl      == "none"
\* A hook thread is identified by the order of its spawn; ids are never
\* reused within a behaviour.
Tids        == 1 .. MaxCalls
\* The HHOOK value SetWindowsHookExW returns to thread t: nonzero, unique,
\* and different from every thread id.
HandleOf(t) == MaxCalls + t
OwnerOf(h)  == h - MaxCalls
\* The native window identifier window.hwnd() yields.
MainHwnd    == 1

VARIABLES
    hookType,        \* which of the two hook modules this behaviour follows
    HOOK_HANDLE,     \* (KB_)HOOK_HANDLE: AtomicIsize, 0 = none
    HOOK_THREAD_ID,  \* (KB_)HOOK_THREAD_ID: AtomicU32, 0 = none
    WINDOW_HANDLE,   \* mouse_hook WINDOW_HANDLE: AtomicIsize, 0 = none
    APP_HANDLE,      \* keyboard_hook APP_HANDLE contents: "None" or "Some"
    appHandleLock,   \* holder (thread id) of the APP_HANDLE mutex, 0 = free
    INSTALL_LOCK,    \* holder (controller) of the install lock, or NoCtrl
    ctrl,            \* controller threads: position and locals of the call
    thr,             \* hook threads: position, OS-side hook, queue, callback
    calls            \* number of calls issued so far

vars == <<hookType, HOOK_HANDLE, HOOK_THREAD_ID, WINDOW_HANDLE, APP_HANDLE,
          appHandleLock, INSTALL_LOCK, ctrl, thr, calls>>

\* ------------------------------------------------------------ initial state
\* A controller thread outside any call.  op, result and child describe its
\* last call: which operation, what it returned (Ok or the error message's
\* prefix), and the hook thread it spawned (0 = none).
IdleCtrl == [pc |-> "idle", op |-> "none", result |-> "none",
             hook_ptr |-> 0, thread_id |-> 0, rx |-> 0, child |-> 0]

NoFrame == [pc |-> "none"]

\* A thread that has not been spawned yet.
Unborn == [pc |-> "unborn", hook |-> "none", chan |-> <<>>,
           unhooks |-> 0, quits |-> 0, cb |-> NoFrame]

Init ==
    /\ hookType \in HookTypes
    /\ HOOK_HANDLE = 0
    /\ HOOK_THREAD_ID = 0
    /\ WINDOW_HANDLE = 0
    /\ APP_HANDLE = "None"
    /\ appHandleLock = 0
    /\ INSTALL_LOCK = NoCtrl
    /\ ctrl = [c \in Controllers |-> IdleCtrl]
    /\ thr = [t \in Tids |-> Unborn]
    /\ calls = 0

\* ------------------------------------------------------------------ helpers
Spawned      == {t \in Tids : thr[t].pc # "unborn"}
Alive        == {t \in Tids : thr[t].pc \notin {"unborn", "exited"}}
\* The OS hook of thread t is registered and not yet released.
Registered(t) == thr[t].hook = "ok" /\ thr[t].unhooks = 0 /\ thr[t].pc # "exited"
NextTid      == Cardinality(Spawned) + 1

\* The call of controller c returns res; the install lock guard is dropped.
Returned(c, res) ==
    [ctrl EXCEPT ![c] = [IdleCtrl EXCEPT !.op = ctrl[c].op, !.result = res,
                                         !.child = ctrl[c].child]]

\* std::thread::spawn: the next thread starts at SetWindowsHookExW.
SpawnThread(t) == [thr EXCEPT ![t] = [Unborn EXCEPT !.pc = "hook"]]

\* ------------------------------------------------- install_hook (controller)
\* A controller thread calls install_hook(context).
InstallCall(c) ==
    /\ ctrl[c].pc = "idle"
    /\ calls < MaxCalls
    /\ calls' = calls + 1
    /\ ctrl' = [ctrl EXCEPT ![c] = [IdleCtrl EXCEPT !.pc = "i_lock", !.op = "install"]]
    /\ UNCHANGED <<hookType, HOOK_HANDLE, HOOK_THREAD_ID, WINDOW_HANDLE,
                   APP_HANDLE, appHandleLock, INSTALL_LOCK, thr>>

\* Fault variant: the install lock excludes nobody.
InstallLockIgnored == TRUE

\* get_install_lock().lock() returns once no other thread holds the guard.
InstallLockFree == INSTALL_LOCK = NoCtrl

\* Fault variant: the already-installed check never fires.
NeverInstalled == FALSE

\* `if HOOK_HANDLE.load(Relaxed) != 0 { return Ok(()) }`
AlreadyInstalled == HOOK_HANDLE # 0

\* get_install_lock().lock(), then the already-installed check.
InstallEnter(c) ==
    /\ ctrl[c].pc = "i_lock"
    /\ InstallLockFree
    /\ IF AlreadyInstalled
          THEN /\ ctrl' = Returned(c, "Ok")
               /\ UNCHANGED INSTALL_LOCK
          ELSE /\ ctrl' = [ctrl EXCEPT ![c].pc = "i_ctx"]
               /\ INSTALL_LOCK' = c
    /\ UNCHANGED <<hookType, HOOK_HANDLE, HOOK_THREAD_ID, WINDOW_HANDLE,
                   APP_HANDLE, appHandleLock, thr, calls>>

\* keyboard: store Some(app_handle) under the APP_HANDLE mutex, create the
\* channel and spawn the hook thread.
KbInstallCtx(c) ==
    /\ hookType = "kb"
    /\ ctrl[c].pc = "i_ctx"
    /\ appHandleLock = 0
    /\ APP_HANDLE' = "Some"
    /\ thr' = SpawnThread(NextTid)
    /\ ctrl' = [ctrl EXCEPT ![c].pc = "i_recv", ![c].rx = NextTid,
                                      ![c].child = NextTid]
    /\ UNCHANGED <<hookType, HOOK_HANDLE, HOOK_THREAD_ID, WINDOW_HANDLE,
                   appHandleLock, INSTALL_LOCK, calls>>

\* Fault variant: the native handle is asked for after the thread is spawned.
MouseInstallCtxSpawnsFirst(c, hwndOk) ==
    /\ hookType = "mouse"
    /\ ctrl[c].pc = "i_ctx"
    /\ thr' = SpawnThread(NextTid)
    /\ IF hwndOk
          THEN /\ WINDOW_HANDLE' = MainHwnd
               /\ ctrl' = [ctrl EXCEPT ![c].pc = "i_recv", ![c].rx = NextTid,
                                      ![c].child = NextTid]
               /\ UNCHANGED INSTALL_LOCK
          ELSE /\ ctrl' = Returned(c, "Failed to get HWND")
               /\ INSTALL_LOCK' = NoCtrl
               /\ UNCHANGED WINDOW_HANDLE
    /\ UNCHANGED <<hookType, HOOK_HANDLE, HOOK_THREAD_ID, APP_HANDLE,
                   appHandleLock, calls>>

\* mouse: window.hwnd()? , store it in WINDOW_HANDLE, create the channel and
\* spawn the hook thread.  hwndOk is the outcome of window.hwnd().
MouseInstallCtx(c, hwndOk) ==
    /\ hookType = "mouse"
    /\ ctrl[c].pc = "i_ctx"
    /\ IF hwndOk
          THEN /\ WINDOW_HANDLE' = MainHwnd
               /\ thr' = SpawnThread(NextTid)
               /\ ctrl' = [ctrl EXCEPT ![c].pc = "i_recv", ![c].rx = NextTid,
                                      ![c].child = NextTid]
               /\ UNCHANGED INSTALL_LOCK
          ELSE /\ ctrl' = Returned(c, "Failed to get HWND")
               /\ INSTALL_LOCK' = NoCtrl
               /\ UNCHANGED <<WINDOW_HANDLE, thr>>
    /\ UNCHANGED <<hookType, HOOK_HANDLE, HOOK_THREAD_ID, APP_HANDLE,
                   appHandleLock, calls>>

\* What the failure arms of `match rx.recv()` leave in the context slot:
\* mouse_hook.rs stores 0 into WINDOW_HANDLE, keyboard_hook.rs writes nothing.
FailedInstallWindow == IF hookType = "mouse" THEN 0 ELSE WINDOW_HANDLE
FailedInstallApp    == APP_HANDLE

\* rx.recv(): blocks until the hook thread has sent its result, or until the
\* sender is dropped without one (the thread is gone and the channel empty).
InstallRecv(c) ==
    /\ ctrl[c].pc = "i_recv"
    /\ LET t == ctrl[c].rx IN
       /\ \/ thr[t].chan # <<>>
          \/ thr[t].pc = "exited"
       /\ IF thr[t].chan # <<>> /\ Head(thr[t].chan).ok
             THEN /\ HOOK_HANDLE' = Head(thr[t].chan).hook_ptr
                  /\ HOOK_THREAD_ID' = Head(thr[t].chan).thread_id
                  /\ ctrl' = Returned(c, "Ok")
                  /\ UNCHANGED <<WINDOW_HANDLE, APP_HANDLE>>
             ELSE /\ WINDOW_HANDLE' = FailedInstallWindow
                  /\ APP_HANDLE' = FailedInstallApp
                  /\ ctrl' = Returned(c, IF thr[t].chan # <<>>
                                             THEN "SetWindowsHookExW failed"
                                             ELSE "Hook thread communication error")
                  /\ UNCHANGED <<HOOK_HANDLE, HOOK_THREAD_ID>>
       /\ thr' = [thr EXCEPT ![t].chan = <<>>]
    /\ INSTALL_LOCK' = NoCtrl
    /\ UNCHANGED <<hookType, appHandleLock, calls>>

\* ----------------------------------------------- uninstall_hook (controller)
UninstallCall(c) ==
    /\ ctrl[c].pc = "idle"
    /\ calls < MaxCalls
    /\ calls' = calls + 1
    /\ ctrl' = [ctrl EXCEPT ![c] = [IdleCtrl EXCEPT !.pc = "u_lock", !.op = "uninstall"]]
    /\ UNCHANGED <<hookType, HOOK_HANDLE, HOOK_THREAD_ID, WINDOW_HANDLE,
                   APP_HANDLE, appHandleLock, INSTALL_LOCK, thr>>

\* Fault variant: a load in place of the swap leaves the handle stored.
LoadLeavesHandle == HOOK_HANDLE

\* Fault variant: a load in place of the swap leaves the thread id stored.
LoadLeavesThreadId == HOOK_THREAD_ID

\* What `HOOK_THREAD_ID.swap(0, Relaxed)` leaves in HOOK_THREAD_ID.
SwapLeavesThreadId == 0

\* What `HOOK_HANDLE.swap(0, Relaxed)` leaves in HOOK_HANDLE.
SwapLeavesHandle == 0

\* get_install_lock().lock(), then HOOK_HANDLE.swap(0) and
\* HOOK_THREAD_ID.swap(0) into the locals hook_ptr and thread_id.
UninstallEnter(c) ==
    /\ ctrl[c].pc = "u_lock"
    /\ InstallLockFree
    /\ INSTALL_LOCK' = c
    /\ ctrl' = [ctrl EXCEPT ![c].pc = "u_clear",
                            ![c].hook_ptr = HOOK_HANDLE,
                            ![c].thread_id = HOOK_THREAD_ID]
    /\ HOOK_HANDLE' = SwapLeavesHandle
    /\ HOOK_THREAD_ID' = SwapLeavesThreadId
    /\ UNCHANGED <<hookType, WINDOW_HANDLE, APP_HANDLE, appHandleLock, thr, calls>>

\* Fault variant: the release runs whatever was taken.
HookAlwaysPresent(c) == TRUE

\* `if hook_ptr != 0`
HookPresent(c) == ctrl[c].hook_ptr # 0

\* Fault variant: the context slot is left as it is.
UninstallClearKeeps(c) ==
    /\ ctrl[c].pc = "u_clear"
    /\ IF HookPresent(c)
          THEN /\ ctrl' = [ctrl EXCEPT ![c].pc = "u_unhook"]
               /\ UNCHANGED INSTALL_LOCK
          ELSE /\ ctrl' = Returned(c, "Ok")
               /\ INSTALL_LOCK' = NoCtrl
    /\ UNCHANGED <<hookType, HOOK_HANDLE, HOOK_THREAD_ID, WINDOW_HANDLE,
                   APP_HANDLE, appHandleLock, thr, calls>>

\* Clear the context slot, then branch on `if hook_ptr != 0`.
\* keyboard: `if let Ok(mut guard) = get_app_handle_store().lock()`.
UninstallClear(c) ==
    /\ ctrl[c].pc = "u_clear"
    /\ IF hookType = "kb"
          THEN /\ appHandleLock = 0
               /\ APP_HANDLE' = "None"
               /\ UNCHANGED WINDOW_HANDLE
          ELSE /\ WINDOW_HANDLE' = 0
               /\ UNCHANGED APP_HANDLE
    /\ IF HookPresent(c)
          THEN /\ ctrl' = [ctrl EXCEPT ![c].pc = "u_unhook"]
               /\ UNCHANGED INSTALL_LOCK
          ELSE /\ ctrl' = Returned(c, "Ok")
               /\ INSTALL_LOCK' = NoCtrl
    /\ UNCHANGED <<hookType, HOOK_HANDLE, HOOK_THREAD_ID, appHandleLock, thr, calls>>

\* UnhookWindowsHookEx(hook), then branch on `if thread_id != 0`.
UninstallUnhook(c) ==
    /\ ctrl[c].pc = "u_unhook"
    /\ LET t == OwnerOf(ctrl[c].hook_ptr) IN
       thr' = [thr EXCEPT ![t].unhooks = @ + 1]
    /\ IF ctrl[c].thread_id # 0
          THEN /\ ctrl' = [ctrl EXCEPT ![c].pc = "u_post"]
               /\ UNCHANGED INSTALL_LOCK
          ELSE /\ ctrl' = Returned(c, "Ok")
               /\ INSTALL_LOCK' = NoCtrl
    /\ UNCHANGED <<hookType, HOOK_HANDLE, HOOK_THREAD_ID, WINDOW_HANDLE,
                   APP_HANDLE, appHandleLock, calls>>

\* PostThreadMessageW(thread_id, WM_QUIT, 0, 0), then Ok(()).
UninstallPost(c) ==
    /\ ctrl[c].pc = "u_post"
    /\ thr' = [thr EXCEPT ![ctrl[c].thread_id].quits = @ + 1]
    /\ ctrl' = Returned(c, "Ok")
    /\ INSTALL_LOCK' = NoCtrl
    /\ UNCHANGED <<hookType, HOOK_HANDLE, HOOK_THREAD_ID, WINDOW_HANDLE,
                   APP_HANDLE, appHandleLock, calls>>

\* --------------------------------------------------------------- hook thread
\* Fault variant: the hook thread stores the handle it obtained itself.
ThreadHookStores(t, granted) ==
    /\ thr[t].pc = "hook"
    /\ thr' = [thr EXCEPT ![t].pc = "send",
                          ![t].hook = IF granted THEN "ok" ELSE "err"]
    /\ HOOK_HANDLE' = IF granted THEN HandleOf(t) ELSE HOOK_HANDLE
    /\ UNCHANGED <<hookType, HOOK_THREAD_ID, WINDOW_HANDLE,
                   APP_HANDLE, appHandleLock, INSTALL_LOCK, ctrl, calls>>

\* SetWindowsHookExW(WH_*_LL, proc, None, 0): the OS grants or refuses.
ThreadHook(t, granted) ==
    /\ thr[t].pc = "hook"
    /\ thr' = [thr EXCEPT ![t].pc = "send",
                          ![t].hook = IF granted THEN "ok" ELSE "err"]
    /\ UNCHANGED <<hookType, HOOK_HANDLE, HOOK_THREAD_ID, WINDOW_HANDLE,
                   APP_HANDLE, appHandleLock, INSTALL_LOCK, ctrl, calls>>

\* Fault variant: the two integers of the Ok pair are sent in the other order.
HandshakeResultSwapped(t) ==
    IF thr[t].hook = "ok"
       THEN [ok |-> TRUE, hook_ptr |-> t, thread_id |-> HandleOf(t)]
       ELSE [ok |-> FALSE, hook_ptr |-> 0, thread_id |-> 0]

\* The value the thread sends: Ok((h.0 as isize, tid)) or Err(..).
HandshakeResult(t) ==
    IF thr[t].hook = "ok"
       THEN [ok |-> TRUE, hook_ptr |-> HandleOf(t), thread_id |-> t]
       ELSE [ok |-> FALSE, hook_ptr |-> 0, thread_id |-> 0]

\* Fault variant: the message loop is entered after either result.
ThreadSendPumps(t) ==
    /\ thr[t].pc = "send"
    /\ thr' = [thr EXCEPT ![t].chan = Append(@, HandshakeResult(t)),
                          ![t].pc = "pump"]
    /\ UNCHANGED <<hookType, HOOK_HANDLE, HOOK_THREAD_ID, WINDOW_HANDLE,
                   APP_HANDLE, appHandleLock, INSTALL_LOCK, ctrl, calls>>

\* tx.send(..); then the message loop (Ok) or the end of the closure (Err).
ThreadSend(t) ==
    /\ thr[t].pc = "send"
    /\ thr' = [thr EXCEPT ![t].chan = Append(@, HandshakeResult(t)),
                          ![t].pc = IF thr[t].hook = "ok" THEN "pump" ELSE "exited"]
    /\ UNCHANGED <<hookType, HOOK_HANDLE, HOOK_THREAD_ID, WINDOW_HANDLE,
                   APP_HANDLE, appHandleLock, INSTALL_LOCK, ctrl, calls>>

\* `while GetMessageW(..).as_bool() {}`: GetMessageW returns FALSE on WM_QUIT,
\* once no hook procedure is running on the thread.
ThreadQuit(t) ==
    /\ thr[t].pc = "pump"
    /\ thr[t].cb.pc = "none"
    /\ thr[t].quits > 0
    /\ thr' = [thr EXCEPT ![t].pc = "exited"]
    /\ UNCHANGED <<hookType, HOOK_HANDLE, HOOK_THREAD_ID, WINDOW_HANDLE,
                   APP_HANDLE, appHandleLock, INSTALL_LOCK, ctrl, calls>>

\* ------------------------------------------------------ hook procedures
\* The OS calls the hook procedure on the thread that registered the hook,
\* from inside GetMessageW, as long as the hook is registered; one call at a
\* time per thread.  A call that has begun runs to its end even if the hook is
\* released meanwhile.
CanCall(t) ==
    /\ thr[t].pc = "pump"
    /\ thr[t].cb.pc = "none"
    /\ Registered(t)

\* The frame of one hook procedure call: its arguments, its locals, and what
\* it has done so far (the sink seen through the guard, notifications
\* emitted, messages posted, CallNextHookEx calls and their result, the value
\* returned).
NewFrame(ev, pc) ==
    [pc |-> pc, ev |-> ev, hwnd |-> 0, rectOk |-> FALSE,
     rect |-> [left |-> 0, top |-> 0, right |-> 0, bottom |-> 0],
     waited |-> FALSE, sink |-> "unread", emitted |-> 0, posted |-> <<>>, chain |-> 0, chainRet |-> 0, ret |-> 0]

\* ---- keyboard_hook_proc
\* `n_code >= 0 && w_param.0 == WM_KEYDOWN as usize`
KbIsKeyDown(ev) == ev.nCode >= 0 /\ ev.wParam = WM_KEYDOWN

\* Fault variant: every key is taken for the unlock key.
KbAnyKey(ev) == TRUE

\* `kb_struct.vkCode == VK_ESCAPE.0 as u32`
KbIsEscape(ev) == ev.vkCode = VK_ESCAPE

KbProcEnter(t, ev) ==
    /\ hookType = "kb"
    /\ CanCall(t)
    /\ thr' = [thr EXCEPT ![t].cb =
                 NewFrame(ev, IF KbIsKeyDown(ev) /\ KbIsEscape(ev)
                                 THEN "lock" ELSE "next")]
    /\ UNCHANGED <<hookType, HOOK_HANDLE, HOOK_THREAD_ID, WINDOW_HANDLE,
                   APP_HANDLE, appHandleLock, INSTALL_LOCK, ctrl, calls>>

\* `get_app_handle_store().lock()` finds the mutex held: the thread parks.
KbProcLockBusy(t) ==
    /\ thr[t].cb.pc = "lock"
    /\ appHandleLock # 0
    /\ ~thr[t].cb.waited
    /\ thr' = [thr EXCEPT ![t].cb.waited = TRUE]
    /\ UNCHANGED <<hookType, HOOK_HANDLE, HOOK_THREAD_ID, WINDOW_HANDLE,
                   APP_HANDLE, appHandleLock, INSTALL_LOCK, ctrl, calls>>

\* Fault variant: the procedure reads the sink under the install lock too.
KbProcLockInstall(t) ==
    /\ thr[t].cb.pc = "lock"
    /\ appHandleLock = 0
    /\ INSTALL_LOCK = NoCtrl
    /\ appHandleLock' = t
    /\ thr' = [thr EXCEPT ![t].cb.pc = "emit"]
    /\ UNCHANGED <<hookType, HOOK_HANDLE, HOOK_THREAD_ID, WINDOW_HANDLE,
                   APP_HANDLE, INSTALL_LOCK, ctrl, calls>>

\* `get_app_handle_store().lock()`: waits while the mutex is held.
KbProcLock(t) ==
    /\ thr[t].cb.pc = "lock"
    /\ appHandleLock = 0
    /\ appHandleLock' = t
    /\ thr' = [thr EXCEPT ![t].cb.pc = "emit"]
    /\ UNCHANGED <<hookType, HOOK_HANDLE, HOOK_THREAD_ID, WINDOW_HANDLE,
                   APP_HANDLE, INSTALL_LOCK, ctrl, calls>>

\* `if let Some(ref handle) = *guard { handle.emit("emergency-unlock", ()) }`:
\* the number of notifications this emits.
KbEmitCount == IF APP_HANDLE = "Some" THEN 1 ELSE 0

\* The emit under the guard; the guard is dropped at the end of the block.
KbProcEmit(t) ==
    /\ thr[t].cb.pc = "emit"
    /\ thr' = [thr EXCEPT ![t].cb.sink = APP_HANDLE,
                          ![t].cb.emitted = @ + KbEmitCount,
                          ![t].cb.pc = "next"]
    /\ appHandleLock' = 0
    /\ UNCHANGED <<hookType, HOOK_HANDLE, HOOK_THREAD_ID, WINDOW_HANDLE,
                   APP_HANDLE, INSTALL_LOCK, ctrl, calls>>

\* ---- mouse_hook_proc
\* `n_code >= 0 && w_param.0 == WM_MOUSEWHEEL as usize`
MouseIsWheel(ev) == ev.nCode >= 0 /\ ev.wParam = WM_MOUSEWHEEL

\* Fault variant: right and bottom edges exclusive.
cursor_in_rect_exclusive(pt, rect) ==
    pt.x >= rect.left /\ pt.x < rect.right /\ pt.y >= rect.top /\ pt.y < rect.bottom

\* fn cursor_in_rect(pt, rect)
cursor_in_rect(pt, rect) ==
    pt.x >= rect.left /\ pt.x <= rect.right /\ pt.y >= rect.top /\ pt.y <= rect.bottom

\* Integer conversions of the forwarded parameters.  A u32 is the pair
\* [hi, lo] of its 16-bit words.
ShiftRight16(u32) == u32.hi                              \* mouseData >> 16
AsI16(u) == IF u % 65536 >= 32768 THEN (u % 65536) - 65536 ELSE u % 65536
AsU16(i) == i % 65536
And0xFFFF(i32) == i32 % 65536                            \* two's complement &

\* `let hi_word = (mouseData >> 16) as i16;
\*  let w = WPARAM((hi_word as u16 as usize) << 16);`
MakeWParam(mouseData) ==
    [hi |-> AsU16(AsI16(ShiftRight16(mouseData))), lo |-> 0]

\* Fault variant: x and y packed the other way round.
MakeLParamSwapped(cursor) ==
    [hi |-> And0xFFFF(cursor.x), lo |-> And0xFFFF(cursor.y),
     sx |-> And0xFFFF(cursor.x) >= 32768]

\* `LPARAM(((cursor.y & 0xFFFF) << 16 | (cursor.x & 0xFFFF)) as isize)`:
\* the two fields are disjoint, so the OR is their juxtaposition; the i32 is
\* sign-extended to isize (sx = the bits above bit 31 are ones).
MakeLParam(cursor) ==
    [hi |-> And0xFFFF(cursor.y), lo |-> And0xFFFF(cursor.x),
     sx |-> And0xFFFF(cursor.y) >= 32768]

\* PostMessageW(hwnd, WM_MOUSEWHEEL, w, l)
ScrollMessage(hwnd, ev) ==
    [hwnd |-> hwnd, msg |-> WM_MOUSEWHEEL,
     wParam |-> MakeWParam(ev.mouseData), lParam |-> MakeLParam(ev.pt)]

\* The filter and `WINDOW_HANDLE.load(Relaxed)`; `if hwnd_val != 0`.
MouseProcEnter(t, ev) ==
    /\ hookType = "mouse"
    /\ CanCall(t)
    /\ thr' = [thr EXCEPT ![t].cb =
                 IF MouseIsWheel(ev)
                    THEN [NewFrame(ev, IF WINDOW_HANDLE # 0 THEN "rect" ELSE "next")
                            EXCEPT !.hwnd = WINDOW_HANDLE]
                    ELSE NewFrame(ev, "next")]
    /\ UNCHANGED <<hookType, HOOK_HANDLE, HOOK_THREAD_ID, WINDOW_HANDLE,
                   APP_HANDLE, appHandleLock, INSTALL_LOCK, ctrl, calls>>

\* Fault variant: the result of GetWindowRect is not looked at.
MouseInsideUnchecked(ev, rectOk, rect) == cursor_in_rect(ev.pt, rect)

\* `GetWindowRect(hwnd, &mut rect).is_ok() && cursor_in_rect(&cursor, &rect)`
MouseInside(ev, rectOk, rect) == rectOk /\ cursor_in_rect(ev.pt, rect)

\* GetWindowRect answers (rectOk, rect); inside: post the scroll message and
\* return LRESULT(1); otherwise fall through to CallNextHookEx.
MouseProcRect(t, rectOk, rect) ==
    /\ thr[t].cb.pc = "rect"
    /\ LET f == [thr[t].cb EXCEPT !.rectOk = rectOk,
                                  !.rect = IF rectOk THEN rect ELSE @] IN
       thr' = [thr EXCEPT ![t].cb =
                 IF MouseInside(f.ev, rectOk, rect)
                    THEN [f EXCEPT !.posted = Append(@, ScrollMessage(f.hwnd, f.ev)),
                                   !.ret = 1, !.pc = "ret"]
                    ELSE [f EXCEPT !.pc = "next"]]
    /\ UNCHANGED <<hookType, HOOK_HANDLE, HOOK_THREAD_ID, WINDOW_HANDLE,
                   APP_HANDLE, appHandleLock, INSTALL_LOCK, ctrl, calls>>

\* ---- both procedures
\* Fault variant: the procedure calls the chain but reports the event consumed.
ProcCallNextConsumes(t, r) ==
    /\ thr[t].cb.pc = "next"
    /\ thr' = [thr EXCEPT ![t].cb.chain = @ + 1,
                          ![t].cb.chainRet = r,
                          ![t].cb.ret = 1,
                          ![t].cb.pc = "ret"]
    /\ UNCHANGED <<hookType, HOOK_HANDLE, HOOK_THREAD_ID, WINDOW_HANDLE,
                   APP_HANDLE, appHandleLock, INSTALL_LOCK, ctrl, calls>>

\* `CallNextHookEx(None, n_code, w_param, l_param)` as the tail expression:
\* the rest of the hook chain answers r, and the procedure returns it.
ProcCallNext(t, r) ==
    /\ thr[t].cb.pc = "next"
    /\ thr' = [thr EXCEPT ![t].cb.chain = @ + 1,
                          ![t].cb.chainRet = r,
                          ![t].cb.ret = r,
                          ![t].cb.pc = "ret"]
    /\ UNCHANGED <<hookType, HOOK_HANDLE, HOOK_THREAD_ID, WINDOW_HANDLE,
                   APP_HANDLE, appHandleLock, INSTALL_LOCK, ctrl, calls>>

\* The procedure has returned; the thread is back in GetMessageW.
ProcReturn(t) ==
    /\ thr[t].cb.pc = "ret"
    /\ thr' = [thr EXCEPT ![t].cb = NoFrame]
    /\ UNCHANGED <<hookType, HOOK_HANDLE, HOOK_THREAD_ID, WINDOW_HANDLE,
                   APP_HANDLE, appHandleLock, INSTALL_LOCK, ctrl, calls>>

\* ------------------------------------------------------------------ inputs
\* What the rest of the hook chain may answer.
LResults == {0, 1}
\* Hook codes: HC_ACTION (0), and a negative code, with which the OS hands the
\* procedure no event to process.
NCodes   == {-1, 0}

\* Keyboard calls: WM_KEYDOWN or WM_KEYUP (257), Escape or the key A (65).
KbEvents ==
    [nCode : NCodes, wParam : {WM_KEYDOWN, 257}, vkCode : {VK_ESCAPE, 65}]

Pt(x, y) == [x |-> x, y |-> y]
Rect(l, t, r, b) == [left |-> l, top |-> t, right |-> r, bottom |-> b]
U32(hi, lo) == [hi |-> hi, lo |-> lo]

\* Mouse calls: WM_MOUSEWHEEL or WM_MOUSEMOVE (512).
MouseEventsOver(pts, datas) ==
    [nCode : NCodes, wParam : {WM_MOUSEWHEEL, 512}, pt : pts, mouseData : datas]

\* The events and rectangles of the lifecycle specification: the scenario of
\* one notch up over the rectangle (0, 0, 100, 100), inside and outside.
ScenarioPoints == {Pt(50, 50), Pt(150, 50)}
ScenarioDatas  == {U32(120, 0)}
ScenarioRects  == {Rect(0, 0, 100, 100)}
MouseEvents    == MouseEventsOver(ScenarioPoints, ScenarioDatas)

\* The events and rectangles of the hook-procedure specification: every edge
\* of each rectangle and one unit beyond it, negative coordinates (a monitor
\* left of or above the primary one), coordinates beyond 16 bits, and wheel
\* deltas of both signs at the ends of the 16-bit range, with and without
\* bits set in the low word of mouseData.
EdgeCoords ==
    {-3, -2, -1, 0, 1, 2, 50, 100, 101, 150, 65534, 65535, 65537, 65538}
EdgePoints == {Pt(x, y) : x \in EdgeCoords, y \in EdgeCoords}
EdgeRects ==
    {Rect(0, 0, 100, 100), Rect(-2, -2, 1, 1), Rect(65535, 65535, 65537, 65537),
     Rect(-2, 0, 65537, 100)}
WheelDatas ==
    {U32(hi, lo) : hi \in {0, 120, 240, 32767, 32768, 65416, 65535}, lo \in {0, 1}}
EdgeMouseEvents == MouseEventsOver(EdgePoints, WheelDatas)

Next ==
    \/ \E c \in Controllers : InstallCall(c)
    \/ \E c \in Controllers : InstallEnter(c)
    \/ \E c \in Controllers : KbInstallCtx(c)
    \/ \E c \in Controllers : \E hwndOk \in BOOLEAN : MouseInstallCtx(c, hwndOk)
    \/ \E c \in Controllers : InstallRecv(c)
    \/ \E c \in Controllers : UninstallCall(c)
    \/ \E c \in Controllers : UninstallEnter(c)
    \/ \E c \in Controllers : UninstallClear(c)
    \/ \E c \in Controllers : UninstallUnhook(c)
    \/ \E c \in Controllers : UninstallPost(c)
    \/ \E t \in Tids : \E granted \in BOOLEAN : ThreadHook(t, granted)
    \/ \E t \in Tids : ThreadSend(t)
    \/ \E t \in Tids : ThreadQuit(t)
    \/ \E t \in Tids : CanCall(t) /\ \E ev \in KbEvents : KbProcEnter(t, ev)
    \/ \E t \in Tids : KbProcLockBusy(t)
    \/ \E t \in Tids : KbProcLock(t)
    \/ \E t \in Tids : KbProcEmit(t)
    \/ \E t \in Tids : CanCall(t) /\ \E ev \in MouseEvents : MouseProcEnter(t, ev)
    \/ \E t \in Tids : thr[t].cb.pc = "rect" /\
          \E rectOk \in BOOLEAN : \E rect \in ScenarioRects : MouseProcRect(t, rectOk, rect)
    \/ \E t \in Tids : \E r \in LResults : ProcCallNext(t, r)
    \/ \E t \in Tids : ProcReturn(t)

Spec == Init /\ [][Next]_vars

\* ------------------------------------------- hook-procedure specification
\* The mouse hook procedure alone, on the thread of an installed hook, over
\* the wide input sets.  It starts in the state a first successful
\* install() of the mouse forwarder leaves behind (InstalledMouse).
InstalledMouse ==
    /\ hookType = "mouse"
    /\ HOOK_HANDLE = HandleOf(1)
    /\ HOOK_THREAD_ID = 1
    /\ WINDOW_HANDLE = MainHwnd
    /\ APP_HANDLE = "None"
    /\ appHandleLock = 0
    /\ INSTALL_LOCK = NoCtrl
    /\ ctrl = [c \in Controllers |->
                 IF c = "c1"
                    THEN [IdleCtrl EXCEPT !.op = "install", !.result = "Ok", !.child = 1]
                    ELSE IdleCtrl]
    /\ thr = [t \in Tids |->
                 IF t = 1 THEN [Unborn EXCEPT !.pc = "pump", !.hook = "ok"] ELSE Unborn]
    /\ calls = 1

NextProc ==
    \/ \E t \in Tids : CanCall(t) /\ \E ev \in EdgeMouseEvents : MouseProcEnter(t, ev)
    \/ \E t \in Tids : thr[t].cb.pc = "rect" /\
          \E rectOk \in BOOLEAN : \E rect \in EdgeRects : MouseProcRect(t, rectOk, rect)
    \/ \E t \in Tids : \E r \in LResults : ProcCallNext(t, r)
    \/ \E t \in Tids : ProcReturn(t)

ProcSpec == InstalledMouse /\ [][NextProc]_vars

\* ------------------------------------------------- fair specification
\* Scheduling: a thread that can run does run.  A controller thread inside
\* uninstall_hook goes on to its end, a hook thread goes on from
\* SetWindowsHookExW to tx.send and leaves GetMessageW on WM_QUIT, and a hook
\* procedure that has begun runs to its return.  Message delivery is
\* reliable: a posted WM_QUIT stays in the queue (quits) until GetMessageW
\* takes it.  A thread blocked in lock() on the APP_HANDLE mutex gets the
\* mutex after finitely many releases (strong fairness).  Nothing obliges
\* the application to issue calls or the OS to deliver input events.
ControllerFairness(c) ==
    /\ SF_vars(UninstallClear(c))
    /\ WF_vars(UninstallUnhook(c))
    /\ WF_vars(UninstallPost(c))

ThreadFairness(t) ==
    /\ WF_vars(\E granted \in BOOLEAN : ThreadHook(t, granted))
    /\ WF_vars(ThreadSend(t))
    /\ WF_vars(ThreadQuit(t))
    /\ SF_vars(KbProcLock(t))
    /\ WF_vars(KbProcEmit(t))
    /\ WF_vars(thr[t].cb.pc = "rect" /\
          \E rectOk \in BOOLEAN : \E rect \in ScenarioRects : MouseProcRect(t, rectOk, rect))
    /\ WF_vars(\E r \in LResults : ProcCallNext(t, r))
    /\ WF_vars(ProcReturn(t))

FairSpec ==
    /\ Spec
    /\ \A c \in Controllers : ControllerFairness(c)
    /\ \A t \in Tids : ThreadFairness(t)

\* The same with fair hook threads only: a controller thread may stop
\* anywhere, also while it holds the install lock.
ProcFairSpec == Spec /\ \A t \in Tids : ThreadFairness(t)

\* ================================================================ properties
InstallReturned(c)   == ctrl[c].pc = "idle" /\ ctrl[c].op = "install"
UninstallReturned(c) == ctrl[c].pc = "idle" /\ ctrl[c].op = "uninstall"
Installers           == {c \in Controllers : ctrl[c].op = "install"}
\* The threads whose SetWindowsHookExW call was granted.
Granted              == {t \in Tids : thr[t].hook = "ok"}
\* The context slot holds the value install() persisted.
ContextPresent ==
    IF hookType = "kb" THEN APP_HANDLE = "Some" ELSE WINDOW_HANDLE = MainHwnd
ContextEmpty == APP_HANDLE = "None" /\ WINDOW_HANDLE = 0

\* Every call issued so far is an install(), each from a different controller
\* thread: the calls are concurrent, none waits for another to return.
OnlyInstalls ==
    /\ \A c \in Controllers : ctrl[c].op \in {"none", "install"}
    /\ calls = Cardinality(Installers)
\* The OS has refused no registration.
NoRefusal == \A t \in Tids : thr[t].hook # "err"
\* No install() failed to obtain the target window's native handle.
NoHwndFailure == \A c \in Controllers : ctrl[c].result # "Failed to get HWND"

\* What C1 promises of concurrent installs: every returned call returned Ok,
\* and one thread was spawned and one hook registered for all of them.
OneThreadForAll ==
    /\ Cardinality(Spawned) <= 1
    /\ Cardinality(Granted) <= 1
    /\ \A c \in Controllers :
          InstallReturned(c) =>
             /\ ctrl[c].result = "Ok"
             /\ Cardinality(Spawned) = 1
             /\ Cardinality(Granted) = 1

\* C1 as stated: N concurrent install() calls issued while the hook is not
\* installed, the OS granting the registration, all return success with
\* exactly one hook thread spawned and exactly one OS hook registered.
C1_ConcurrentInstalls_AsStated ==
    (OnlyInstalls /\ NoRefusal) => OneThreadForAll

\* C1 amended: the same, provided also that each call obtains the target
\* window's native handle (mouse forwarder; the keyboard watcher has no such
\* step).
C1_ConcurrentInstalls ==
    (OnlyInstalls /\ NoRefusal /\ NoHwndFailure) => OneThreadForAll

\* All controller threads called install() and all have returned.
C1_Witness ==
    /\ OnlyInstalls /\ NoRefusal /\ NoHwndFailure
    /\ \A c \in Controllers : InstallReturned(c) /\ ctrl[c].result = "Ok"
    /\ Cardinality(Spawned) = 1

\* C2: install() while the hook is installed returns success without spawning
\* a thread, without registering a hook and without changing the stored
\* handle or thread identity; so installs alone never leave more than one
\* hook thread active.
C2_InstallIdempotent ==
    /\ [][\A c \in Controllers :
            (ctrl[c].pc = "i_lock" /\ ctrl'[c] # ctrl[c] /\ HOOK_HANDLE # 0) =>
               /\ ctrl'[c].pc = "idle"
               /\ ctrl'[c].result = "Ok"
               /\ ctrl'[c].child = 0
               /\ thr' = thr
               /\ HOOK_HANDLE' = HOOK_HANDLE
               /\ HOOK_THREAD_ID' = HOOK_THREAD_ID]_vars
    /\ [](OnlyInstalls /\ HOOK_HANDLE # 0 => Cardinality(Alive) = 1)

\* A second install() has returned Ok through the early return.
C2_Witness ==
    /\ OnlyInstalls
    /\ HOOK_HANDLE # 0
    /\ \E c \in Controllers :
          InstallReturned(c) /\ ctrl[c].result = "Ok" /\ ctrl[c].child = 0
    /\ Cardinality(Alive) = 1

\* An uninstall() that found handle and thread identity both empty.
UninstallFoundNothing(c) ==
    /\ ctrl[c].pc = "u_clear"
    /\ ctrl[c].hook_ptr = 0
    /\ ctrl[c].thread_id = 0

\* C3: uninstall() with nothing installed returns success, releases no OS
\* hook, posts no termination message and leaves handle and thread identity
\* empty.
C3_UninstallNoOp ==
    [][\A c \in Controllers :
         /\ (ctrl[c].pc = "u_lock" /\ ctrl'[c] # ctrl[c]
               /\ HOOK_HANDLE = 0 /\ HOOK_THREAD_ID = 0) =>
               /\ UninstallFoundNothing(c)'
               /\ thr' = thr
               /\ HOOK_HANDLE' = 0 /\ HOOK_THREAD_ID' = 0
         /\ (UninstallFoundNothing(c) /\ ctrl'[c] # ctrl[c]) =>
               /\ ctrl'[c].pc = "idle"
               /\ ctrl'[c].result = "Ok"
               /\ thr' = thr
               /\ HOOK_HANDLE' = 0 /\ HOOK_THREAD_ID' = 0]_vars

\* Such an uninstall() has returned; nothing was ever released or posted.
C3_Witness ==
    /\ \E c \in Controllers : UninstallReturned(c) /\ ctrl[c].result = "Ok"
    /\ \A t \in Tids : thr[t].unhooks = 0 /\ thr[t].quits = 0
    /\ HOOK_HANDLE = 0 /\ HOOK_THREAD_ID = 0

\* Thread t was spawned after an earlier hook had been released.
Reinstalled(t) == \E s \in Tids : s < t /\ thr[s].unhooks > 0
\* The hook of thread t works: registered, its thread pumping, and the
\* stored identity and context are those of this installation.
Functional(t) ==
    /\ t \in Tids
    /\ Registered(t)
    /\ thr[t].pc = "pump"
    /\ HOOK_THREAD_ID = t
    /\ ContextPresent

\* C4: an install() that follows install() and uninstall() spawns a new
\* thread whose granted registration makes the call return success, and the
\* stored handle then denotes a working hook of that new thread: nothing the
\* first cycle left behind prevents or alters the re-installation.
C4_RoundTrip ==
    /\ \A c \in Controllers :
          (InstallReturned(c) /\ ctrl[c].child # 0 /\ Reinstalled(ctrl[c].child)) =>
             /\ thr[ctrl[c].child].hook = "ok" <=> ctrl[c].result = "Ok"
             /\ (ctrl[c].result = "Ok" /\ HOOK_HANDLE = HandleOf(ctrl[c].child))
                   => Functional(ctrl[c].child)
    /\ ((\E s \in Tids : thr[s].unhooks > 0) /\ HOOK_HANDLE # 0) =>
          /\ Functional(OwnerOf(HOOK_HANDLE))
          /\ Reinstalled(OwnerOf(HOOK_HANDLE))

\* The re-installed hook has handled a matching event (a notification was
\* emitted or a scroll message posted) while the first thread is still alive.
C4_Witness ==
    \E c \in Controllers : \E t \in Tids :
       /\ InstallReturned(c) /\ ctrl[c].child = t /\ ctrl[c].result = "Ok"
       /\ Reinstalled(t)
       /\ HOOK_HANDLE = HandleOf(t)
       /\ thr[t].cb.pc = "ret"
       /\ (thr[t].cb.emitted = 1 \/ Len(thr[t].cb.posted) = 1)
       /\ \E s \in Alive : s < t

\* C5: a failed install() (registration refused, or the channel closed
\* without a result) returns an error and leaves the not-installed state:
\* context slot cleared, handle and thread identity empty.
C5_FailedInstallRollsBack ==
    [][\A c \in Controllers :
         (ctrl[c].pc = "i_recv" /\ ctrl'[c].pc = "idle") =>
            \/ ctrl'[c].result = "Ok"
            \/ /\ ContextEmpty'
               /\ HOOK_HANDLE' = 0
               /\ HOOK_THREAD_ID' = 0]_vars

\* ---- hook procedures
\* A call of the keyboard / mouse hook procedure is running on thread t, or
\* has just returned.
KbCall(t)    == hookType = "kb" /\ thr[t].cb.pc # "none"
MouseCall(t) == hookType = "mouse" /\ thr[t].cb.pc # "none"
Finished(t)  == thr[t].cb.pc = "ret"

\* The call carries a key-down event of the watched unlock key.  (With a
\* negative hook code the OS hands the procedure no event: wParam and lParam
\* describe a keyboard message only under HC_ACTION.)
UnlockKeyDown(ev) ==
    ev.nCode >= 0 /\ ev.wParam = WM_KEYDOWN /\ ev.vkCode = VK_ESCAPE

\* C6: a key-down event of the unlock key causes exactly one emergency-unlock
\* notification when the event-sink reference is present and none when it is
\* absent; any other event causes none.  (The reference is the one the
\* procedure finds in APP_HANDLE when it reads it.)
C6_KeyboardNotification ==
    /\ [](\A t \in Tids :
            (KbCall(t) /\ thr[t].cb.pc \in {"next", "ret"}) =>
               IF UnlockKeyDown(thr[t].cb.ev)
                  THEN /\ thr[t].cb.sink \in {"Some", "None"}
                       /\ thr[t].cb.emitted = IF thr[t].cb.sink = "Some" THEN 1 ELSE 0
                  ELSE thr[t].cb.emitted = 0)
    /\ [][\A t \in Tids :
            (thr[t].cb.pc = "emit" /\ thr'[t].cb.pc # "emit") =>
               thr'[t].cb.sink = APP_HANDLE]_vars

\* The unlock key went down with the sink present: one notification.
C6_Witness ==
    \E t \in Tids :
       /\ KbCall(t) /\ Finished(t)
       /\ UnlockKeyDown(thr[t].cb.ev)
       /\ thr[t].cb.sink = "Some"
       /\ thr[t].cb.emitted = 1

\* C7: the keyboard procedure never consumes an event: every call invokes the
\* chain continuation exactly once, as its last act, and returns its result.
C7_KeyboardNeverConsumes ==
    \A t \in Tids :
       KbCall(t) =>
          IF Finished(t)
             THEN thr[t].cb.chain = 1 /\ thr[t].cb.ret = thr[t].cb.chainRet
             ELSE thr[t].cb.chain = 0

\* A call for the unlock key that had to wait for the sink mutex and then
\* emitted has continued the chain, whose answer (1) it returns.
C7_Witness ==
    \E t \in Tids :
       /\ KbCall(t) /\ Finished(t)
       /\ UnlockKeyDown(thr[t].cb.ev)
       /\ thr[t].cb.waited
       /\ thr[t].cb.emitted = 1
       /\ thr[t].cb.chain = 1 /\ thr[t].cb.ret = 1

\* The call carries a scroll-wheel event.
WheelEvent(ev) == ev.nCode >= 0 /\ ev.wParam = WM_MOUSEWHEEL
\* Inclusive bounds on all four edges.
InsideInclusive(pt, rect) ==
    pt.x \in rect.left .. rect.right /\ pt.y \in rect.top .. rect.bottom
\* The finished call posted exactly one scroll message, to its target window,
\* and reported the event consumed without continuing the chain.
Forwarded(f) ==
    /\ Len(f.posted) = 1
    /\ f.posted[1].hwnd = f.hwnd
    /\ f.posted[1].msg = WM_MOUSEWHEEL
    /\ f.chain = 0
    /\ f.ret # 0
\* The finished call posted nothing and continued the chain.
PassedThrough(f) ==
    /\ f.posted = <<>>
    /\ f.chain = 1
    /\ f.ret = f.chainRet

\* C8: for a scroll-wheel event with a target window stored and its rectangle
\* obtained, the mouse procedure forwards and consumes the event when the
\* cursor is inside the rectangle and passes it through when outside; for a
\* non-scroll event, an absent window reference or a failed rectangle query
\* it passes the event through.  (The window reference is the one the
\* procedure loads from WINDOW_HANDLE.)
C8_MouseForwarding ==
    /\ [](\A t \in Tids :
            (MouseCall(t) /\ Finished(t)) =>
               LET f == thr[t].cb IN
               IF WheelEvent(f.ev) /\ f.hwnd # 0 /\ f.rectOk
                     /\ InsideInclusive(f.ev.pt, f.rect)
                  THEN Forwarded(f)
                  ELSE PassedThrough(f))
    /\ [][\A t \in Tids :
            (hookType = "mouse" /\ thr[t].cb.pc = "none" /\ thr'[t].cb.pc # "none"
               /\ WheelEvent(thr'[t].cb.ev)) =>
               thr'[t].cb.hwnd = WINDOW_HANDLE]_vars

\* A scroll over the window was forwarded.
C8_Witness ==
    \E t \in Tids :
       /\ MouseCall(t) /\ Finished(t)
       /\ WheelEvent(thr[t].cb.ev)
       /\ thr[t].cb.rectOk
       /\ InsideInclusive(thr[t].cb.ev.pt, thr[t].cb.rect)
       /\ Forwarded(thr[t].cb)

\* The hit-test of the call on thread t has been made, on a rectangle the OS
\* supplied: it said "inside" exactly if the call went on to post.
HitTested(t) ==
    MouseCall(t) /\ thr[t].cb.rectOk /\ thr[t].cb.pc \in {"next", "ret"}
SaidInside(t) == thr[t].cb.posted # <<>>

\* C9: the hit-test says "inside" exactly when left <= x <= right and
\* top <= y <= bottom: a cursor on an edge is inside, one unit beyond an edge
\* is outside.
C9_HitTest ==
    \A t \in Tids :
       HitTested(t) =>
          LET pt == thr[t].cb.ev.pt
              rect == thr[t].cb.rect IN
          /\ SaidInside(t) <=>
                (rect.left <= pt.x /\ pt.x <= rect.right
                   /\ rect.top <= pt.y /\ pt.y <= rect.bottom)
          /\ (pt.x \in {rect.left, rect.right} /\ pt.y \in {rect.top, rect.bottom})
                => SaidInside(t)
          /\ (pt.x \in {rect.left - 1, rect.right + 1}
                \/ pt.y \in {rect.top - 1, rect.bottom + 1})
                => ~SaidInside(t)

\* A cursor on the right and bottom edges was found inside.
C9_Witness ==
    \E t \in Tids :
       /\ HitTested(t)
       /\ thr[t].cb.ev.pt.x = thr[t].cb.rect.right
       /\ thr[t].cb.ev.pt.y = thr[t].cb.rect.bottom
       /\ thr[t].cb.rect.left < thr[t].cb.rect.right
       /\ SaidInside(t)

\* v mod 2^16, for -2^16 <= v < 2^17.
Mod16(v) == IF v < 0 THEN v + 65536 ELSE IF v > 65535 THEN v - 65536 ELSE v
\* The signed 16-bit rotation delta an event carries in the high word of
\* mouseData.
WheelDelta(ev) ==
    IF ev.mouseData.hi >= 32768 THEN ev.mouseData.hi - 65536 ELSE ev.mouseData.hi

\* C10: the forwarded message keeps the event's data: its first parameter has
\* the delta, as an unsigned 16-bit value, in bits 16..31 and zero in bits
\* 0..15; its second parameter has x mod 2^16 in bits 0..15 and y mod 2^16 in
\* bits 16..31.  One notch up (+120) at (50, 50) over (0, 0, 100, 100)
\* forwards +120 and (50, 50); a cursor at (150, 50) forwards nothing.
C10_ForwardedMessage ==
    \A t \in Tids :
       HitTested(t) =>
          LET f == thr[t].cb IN
          /\ \A i \in 1 .. Len(f.posted) :
                /\ f.posted[i].wParam.hi = Mod16(WheelDelta(f.ev))
                /\ f.posted[i].wParam.lo = 0
                /\ f.posted[i].lParam.lo = Mod16(f.ev.pt.x)
                /\ f.posted[i].lParam.hi = Mod16(f.ev.pt.y)
          /\ (f.rect = Rect(0, 0, 100, 100) /\ f.ev.pt = Pt(50, 50)
                /\ WheelDelta(f.ev) = 120) =>
                /\ Len(f.posted) = 1
                /\ f.posted[1].wParam.hi = 120
                /\ f.posted[1].lParam.lo = 50 /\ f.posted[1].lParam.hi = 50
          /\ (f.rect = Rect(0, 0, 100, 100) /\ f.ev.pt = Pt(150, 50)) =>
                f.posted = <<>>

\* A notch down (-120) at a cursor left of and above the primary monitor was
\* forwarded: delta and coordinates wrap to their 16-bit fields.
C10_Witness ==
    \E t \in Tids :
       /\ HitTested(t)
       /\ WheelDelta(thr[t].cb.ev) = -120
       /\ thr[t].cb.ev.pt = Pt(-1, -2)
       /\ Len(thr[t].cb.posted) = 1
       /\ thr[t].cb.posted[1].wParam.hi = 65416
       /\ thr[t].cb.posted[1].lParam.lo = 65535
       /\ thr[t].cb.posted[1].lParam.hi = 65534

\* ---- lifecycle invariants
\* An OS hook is registered / a hook thread is alive, for this hook type.
HookInstalled == \E t \in Tids : Registered(t)
ThreadAlive   == Alive # {}
\* No install() or uninstall() is between taking and dropping the install
\* lock.
NoTransition  == INSTALL_LOCK = NoCtrl

\* C11 as stated: in every reachable state the stored handle is non-null
\* exactly if an OS hook is registered, and the stored thread identity is
\* non-null exactly if a hook thread is alive.
C11_HookState_AsStated ==
    /\ HOOK_HANDLE # 0 <=> HookInstalled
    /\ HOOK_THREAD_ID # 0 <=> ThreadAlive

\* C11 amended: in every reachable state a non-null handle is the handle of a
\* registered OS hook and a non-null thread identity is the identity of an
\* alive hook thread, the one that registered that hook; and while no
\* install() or uninstall() is in progress, a registered hook has its handle
\* and its thread's identity stored.  (A hook thread stays alive for a while
\* after uninstall() has emptied the thread identity.)
C11_HookState ==
    /\ HOOK_HANDLE # 0 =>
          /\ OwnerOf(HOOK_HANDLE) \in Tids
          /\ Registered(OwnerOf(HOOK_HANDLE))
          /\ HOOK_THREAD_ID = OwnerOf(HOOK_HANDLE)
    /\ HOOK_THREAD_ID # 0 =>
          /\ HOOK_THREAD_ID \in Alive
          /\ HOOK_HANDLE = HandleOf(HOOK_THREAD_ID)
    /\ NoTransition => (HookInstalled => HOOK_HANDLE # 0 /\ HOOK_THREAD_ID # 0)

\* After install(), uninstall(), install(): the second hook is registered and
\* stored, no call is in progress, and the first thread is still alive.
C11_Witness ==
    /\ NoTransition
    /\ HOOK_HANDLE # 0
    /\ HOOK_THREAD_ID = OwnerOf(HOOK_HANDLE)
    /\ Registered(HOOK_THREAD_ID)
    /\ \E s \in Alive : s # HOOK_THREAD_ID /\ thr[s].unhooks = 1

\* C12: under any interleaving of install() and uninstall() calls, every
\* handle a successful registration returned is released at most once, a
\* termination message is posted at most once per hook thread, and it is
\* posted to the thread that registered the handle being released.
C12_NoDoubleRelease ==
    /\ [](\A t \in Tids :
            /\ thr[t].unhooks <= 1
            /\ thr[t].quits <= thr[t].unhooks
            /\ thr[t].unhooks > 0 => thr[t].hook = "ok")
    /\ [][\A t \in Tids :
            thr'[t].quits > thr[t].quits =>
               \E c \in Controllers :
                  /\ ctrl[c].pc = "u_post" /\ ctrl'[c].pc = "idle"
                  /\ ctrl[c].thread_id = t
                  /\ ctrl[c].hook_ptr = HandleOf(t)
                  /\ thr[t].unhooks = 1]_vars

\* Two uninstall() calls have returned after one install(): the hook was
\* released once and its thread was posted one termination message.
C12_Witness ==
    /\ Cardinality({c \in Controllers : UninstallReturned(c)}) = 2
    /\ \E t \in Tids : thr[t].unhooks = 1 /\ thr[t].quits = 1
    /\ \A t \in Tids : thr[t].unhooks + thr[t].quits \in {0, 2}

\* The alive hook threads that have not been posted a termination message.
Unterminated == {t \in Alive : thr[t].quits = 0}

\* C13 as stated: at any time at most one hook thread of the hook type is
\* alive, also when install() follows an uninstall() whose thread has not yet
\* processed its termination message.
C13_OneThreadAlive_AsStated == Cardinality(Alive) <= 1

\* C13 amended: at any time at most one alive hook thread of the hook type
\* has not been posted a termination message, and at most one OS hook is
\* registered; threads whose hook uninstall() released may still be alive
\* beside it until they process their termination message.
C13_OneThreadAlive ==
    /\ Cardinality(Unterminated) <= 1
    /\ Cardinality({t \in Tids : Registered(t)}) <= 1
    /\ \A t \in Alive \ Unterminated : thr[t].unhooks = 1

\* install() has returned after an uninstall() whose thread is still in its
\* message loop with the termination message pending: two threads are alive.
C13_Witness ==
    \E c \in Controllers : \E s, t \in Alive :
       /\ InstallReturned(c) /\ ctrl[c].child = t /\ ctrl[c].result = "Ok"
       /\ s < t
       /\ thr[s].pc = "pump" /\ thr[s].quits = 1
       /\ Unterminated = {t}
       /\ NoTransition

\* Controller c takes a step of its call.
Steps(c) == ctrl'[c] # ctrl[c]
\* The hook thread whose handle the uninstall() of controller c took.
Taken(c) == OwnerOf(ctrl[c].hook_ptr)

\* C14: uninstall() with a handle present first reads and clears handle and
\* thread identity, then clears the context slot, then releases the OS
\* hook, then posts the termination message to the owning thread, then
\* returns success; it returns while the hook thread is still alive.
C14_UninstallOrder ==
    /\ [][\A c \in Controllers :
            /\ (ctrl[c].pc = "u_lock" /\ Steps(c) /\ HOOK_HANDLE # 0) =>
                  /\ ctrl'[c].pc = "u_clear"
                  /\ ctrl'[c].hook_ptr = HOOK_HANDLE
                  /\ ctrl'[c].thread_id = HOOK_THREAD_ID
                  /\ HOOK_HANDLE' = 0 /\ HOOK_THREAD_ID' = 0
                  /\ UNCHANGED <<WINDOW_HANDLE, APP_HANDLE, thr>>
            /\ (ctrl[c].pc = "u_clear" /\ Steps(c) /\ ctrl[c].hook_ptr # 0) =>
                  /\ ctrl'[c].pc = "u_unhook"
                  /\ ContextEmpty'
                  /\ UNCHANGED <<HOOK_HANDLE, HOOK_THREAD_ID, thr>>
            /\ (ctrl[c].pc = "u_unhook" /\ Steps(c)) =>
                  /\ ctrl'[c].pc = "u_post"
                  /\ thr' = [thr EXCEPT ![Taken(c)].unhooks = 1]
                  /\ thr[Taken(c)].unhooks = 0 /\ thr[Taken(c)].quits = 0
                  /\ UNCHANGED <<HOOK_HANDLE, HOOK_THREAD_ID, WINDOW_HANDLE, APP_HANDLE>>
            /\ (ctrl[c].pc = "u_post" /\ Steps(c)) =>
                  /\ ctrl'[c].pc = "idle" /\ ctrl'[c].result = "Ok"
                  /\ ctrl[c].thread_id = Taken(c)
                  /\ thr' = [thr EXCEPT ![Taken(c)].quits = 1]
                  /\ Taken(c) \in Alive'
                  /\ UNCHANGED <<HOOK_HANDLE, HOOK_THREAD_ID, WINDOW_HANDLE, APP_HANDLE>>]_vars
    /\ [](\A c \in Controllers :
            ctrl[c].pc \in {"u_unhook", "u_post"} =>
               /\ ctrl[c].hook_ptr # 0
               /\ HOOK_HANDLE = 0 /\ HOOK_THREAD_ID = 0
               /\ ContextEmpty)

\* uninstall() has returned success after releasing the hook and posting the
\* termination message, and the hook thread is still in its message loop.
C14_Witness ==
    \E c \in Controllers : \E t \in Tids :
       /\ UninstallReturned(c) /\ ctrl[c].result = "Ok"
       /\ thr[t].unhooks = 1 /\ thr[t].quits = 1
       /\ thr[t].pc = "pump"
       /\ HOOK_HANDLE = 0 /\ HOOK_THREAD_ID = 0 /\ ContextEmpty
       /\ NoTransition

\* ---- termination
\* An uninstall() has taken the handle thread t registered.
HandleTaken(t) ==
    \/ thr[t].unhooks > 0
    \/ \E c \in Controllers :
          ctrl[c].pc \in {"u_clear", "u_unhook"} /\ ctrl[c].hook_ptr = HandleOf(t)
Exited(t) == thr[t].pc = "exited"

\* C15: under fair scheduling and reliable message delivery, no spawned hook
\* thread stays alive forever after uninstall() has taken its handle or after
\* its registration failed: from some point on every such thread has
\* terminated.  A thread leaves its message loop only when a termination
\* message is there; a thread whose registration failed terminates right
\* after reporting the failure, without entering the message loop or running
\* a hook procedure.
C15_ThreadsTerminate ==
    /\ <>[](\A t \in Tids :
              (HandleTaken(t) \/ thr[t].hook = "err") => Exited(t))
    /\ [](\A t \in Tids :
            thr[t].hook = "err" =>
               /\ thr[t].pc \in {"send", "exited"}
               /\ thr[t].cb = NoFrame)
    /\ [][\A t \in Tids :
            /\ (thr[t].hook = "err" /\ thr'[t] # thr[t] /\ thr[t].pc = "send") =>
                  /\ Exited(t)'
                  /\ thr'[t].chan = <<[ok |-> FALSE, hook_ptr |-> 0, thread_id |-> 0]>>
            /\ (thr[t].pc = "pump" /\ Exited(t)') => thr[t].quits > 0]_vars

\* Both kinds of thread have ended: one whose registration was refused, and
\* one that left its message loop after uninstall() took its handle.
C15_Witness ==
    \E s, t \in Tids :
       /\ thr[s].hook = "err" /\ Exited(s)
       /\ thr[t].hook = "ok" /\ thr[t].unhooks = 1 /\ thr[t].quits = 1 /\ Exited(t)

\* ---- writers of the shared state
\* Handle, thread identity and the context slot of the hook type.
shared == <<HOOK_HANDLE, HOOK_THREAD_ID, WINDOW_HANDLE, APP_HANDLE>>
\* Controller c holds the install lock during the step: it held it before, or
\* the step begins with its acquisition.
HoldsLockInStep(c) ==
    \/ INSTALL_LOCK = c
    \/ /\ INSTALL_LOCK = NoCtrl
       /\ INSTALL_LOCK' = c
       /\ ctrl[c].pc \in {"i_lock", "u_lock"}
\* The step is one of hook thread t or of a hook procedure running on it.
ThreadSteps(t) ==
    /\ thr[t].pc # "unborn"
    /\ thr'[t].pc # thr[t].pc \/ thr'[t].cb # thr[t].cb

\* C16: handle, thread identity and context slot are written only by a
\* thread that holds the install lock of the hook type; the hook thread and
\* the hook procedure never write them.
C16_WritersHoldLock ==
    [][/\ shared' # shared =>
             \E c \in Controllers :
                /\ Steps(c)
                /\ HoldsLockInStep(c)
                /\ \A d \in Controllers \ {c} : ~Steps(d)
       /\ \A t \in Tids : ThreadSteps(t) => shared' = shared]_vars

\* uninstall() has emptied handle and thread identity under the install lock
\* while a hook procedure is running on the hook thread.
C16_Witness ==
    \E c \in Controllers : \E t \in Tids :
       /\ INSTALL_LOCK = c
       /\ ctrl[c].pc = "u_clear" /\ ctrl[c].hook_ptr = HandleOf(t)
       /\ HOOK_HANDLE = 0 /\ HOOK_THREAD_ID = 0
       /\ ~ContextEmpty
       /\ thr[t].cb.pc \in {"lock", "emit", "rect"}

\* ---- hook procedures and the install lock
\* The next step of the hook procedure running on thread t.
ProcStep(t) ==
    \/ KbProcLock(t)
    \/ KbProcEmit(t)
    \/ \E rectOk \in BOOLEAN : \E rect \in ScenarioRects : MouseProcRect(t, rectOk, rect)
    \/ \E r \in LResults : ProcCallNext(t, r)
    \/ ProcReturn(t)
InCall(t) == thr[t].cb.pc # "none"
\* The procedure on thread t waits for the sink mutex, which the hook
\* procedure of another thread holds for the length of its emit.
WaitsForSinkGuard(t) ==
    /\ thr[t].cb.pc = "lock"
    /\ appHandleLock \in Tids \ {t}
    /\ thr[appHandleLock].cb.pc = "emit"

\* C17: a hook procedure never acquires the install lock and never waits for
\* an install() or uninstall() in progress: whoever holds the install lock,
\* and wherever that call stands, a running procedure can take its next step
\* (or waits for the sink guard held by another procedure, never by a
\* controller), leaves the install lock alone, and completes (each thread
\* is again and again outside any procedure call), even if the controller
\* never moves again.
C17_CallbackNeverWaits ==
    /\ [](\A t \in Tids :
            InCall(t) => ENABLED ProcStep(t) \/ WaitsForSinkGuard(t))
    /\ [][\A t \in Tids : ThreadSteps(t) => INSTALL_LOCK' = INSTALL_LOCK]_vars
    /\ \A t \in Tids : []<>~InCall(t)

\* A hook procedure has run to its return while the installing call still
\* holds the install lock, blocked on the handshake.
C17_Witness ==
    \E c \in Controllers : \E t \in Tids :
       /\ INSTALL_LOCK = c
       /\ ctrl[c].pc = "i_recv" /\ ctrl[c].rx = t
       /\ Finished(t)
       /\ thr[t].cb.sink = "Some" \/ thr[t].cb.hwnd = MainHwnd

\* ---- mouse forwarder: the target window's native handle
HwndFailed(c) == InstallReturned(c) /\ ctrl[c].result = "Failed to get HWND"

\* C18: when the native handle of the target window cannot be obtained, the
\* mouse forwarder's install() returns an error before any hook thread is
\* spawned and leaves handle, thread identity and the stored window
\* reference unchanged.
C18_HwndFailure ==
    /\ [][\A c \in Controllers :
            (Steps(c) /\ HwndFailed(c)') =>
               /\ hookType = "mouse"
               /\ ctrl[c].pc = "i_ctx"
               /\ thr' = thr
               /\ shared' = shared]_vars
    /\ [](\A c \in Controllers : HwndFailed(c) => ctrl[c].child = 0)

\* After an install() / uninstall() cycle, an install() that could not obtain
\* the native handle has returned: no new thread, nothing stored.
C18_Witness ==
    \E c \in Controllers :
       /\ HwndFailed(c)
       /\ Cardinality(Spawned) = 1
       /\ \E t \in Tids : thr[t].unhooks = 1
       /\ HOOK_HANDLE = 0 /\ HOOK_THREAD_ID = 0 /\ WINDOW_HANDLE = 0

\* ---- handshake
\* The install() call that spawned thread t is blocked on its channel.
Awaited(t) ==
    \E c \in Controllers :
       ctrl[c].pc = "i_recv" /\ ctrl[c].rx = t /\ ctrl[c].child = t
\* What thread t has to report: its handle and identity, or the failure.
Report(t) ==
    IF thr[t].hook = "ok"
       THEN [ok |-> TRUE, hook_ptr |-> HandleOf(t), thread_id |-> t]
       ELSE [ok |-> FALSE, hook_ptr |-> 0, thread_id |-> 0]

\* C19: each spawned hook thread sends exactly one result on its channel,
\* before entering the message loop; the install() that spawned it receives
\* that result exactly once and neither returns nor stores a handle before
\* receiving it; and the handle and thread identity stored are the pair that
\* thread sent.
C19_Handshake ==
    /\ [](\A t \in Tids :
            /\ Len(thr[t].chan) <= 1
            /\ thr[t].pc \in {"hook", "send"} => thr[t].chan = <<>> /\ Awaited(t)
            /\ thr[t].chan # <<>> => Awaited(t) /\ thr[t].chan = <<Report(t)>>)
    /\ [](\A c \in Controllers : ctrl[c].pc = "i_recv" => HOOK_HANDLE = 0)
    /\ [][\A t \in Tids :
            /\ thr'[t].chan # thr[t].chan =>
                  \/ /\ thr[t].pc = "send" /\ thr'[t].pc \in {"pump", "exited"}
                     /\ thr[t].chan = <<>> /\ thr'[t].chan = <<Report(t)>>
                  \/ /\ thr'[t].chan = <<>>
                     /\ \E c \in Controllers :
                           /\ ctrl[c].pc = "i_recv" /\ ctrl[c].rx = t
                           /\ InstallReturned(c)'
                           /\ ctrl'[c].result = "Ok" <=> Head(thr[t].chan).ok
                           /\ IF Head(thr[t].chan).ok
                                 THEN /\ HOOK_HANDLE' = HandleOf(t)
                                      /\ HOOK_THREAD_ID' = t
                                 ELSE UNCHANGED <<HOOK_HANDLE, HOOK_THREAD_ID>>
            /\ (thr[t].pc # "pump" /\ thr'[t].pc = "pump") =>
                  thr[t].chan = <<>> /\ thr'[t].chan # <<>>]_vars
    /\ [][\A c \in Controllers :
            (ctrl[c].pc = "i_recv" /\ Steps(c)) =>
               /\ thr[ctrl[c].rx].chan # <<>>
               /\ thr'[ctrl[c].rx].chan = <<>>]_vars
    /\ [][(HOOK_HANDLE' # HOOK_HANDLE /\ HOOK_HANDLE' # 0) =>
             \E t \in Tids : thr[t].chan = <<Report(t)>> /\ thr'[t].chan = <<>>]_vars

\* One install() has received a failure and returned it, and a later one has
\* received and stored the pair its thread sent.
C19_Witness ==
    \E c, d \in Controllers :
       /\ InstallReturned(c) /\ ctrl[c].result = "SetWindowsHookExW failed"
       /\ thr[ctrl[c].child].pc = "exited"
       /\ InstallReturned(d) /\ ctrl[d].result = "Ok" /\ ctrl[d].child # 0
       /\ HOOK_HANDLE = HandleOf(ctrl[d].child)
       /\ HOOK_THREAD_ID = ctrl[d].child
       /\ thr[ctrl[d].child].pc = "pump"
       /\ \A t \in Tids : thr[t].chan = <<>>

\* ---- after uninstall()
\* Every call has returned, the last transition was an uninstall(): no
\* handle is stored, an uninstall() has returned, and every install() still
\* on record returned success (so an uninstall() took its hook afterwards).
\* No install() has started since that uninstall() returned.
AfterUninstall ==
    /\ \A c \in Controllers : ctrl[c].pc = "idle"
    /\ HOOK_HANDLE = 0
    /\ \E c \in Controllers : UninstallReturned(c)
    /\ \A c \in Controllers : InstallReturned(c) => ctrl[c].result = "Ok"
\* The step is a side effect of the hook procedure on thread t: a
\* notification emitted, a scroll message posted, or an event consumed.
SideEffect(t) ==
    /\ InCall(t) /\ InCall(t)'
    /\ \/ thr'[t].cb.emitted > thr[t].cb.emitted
       \/ Len(thr'[t].cb.posted) > Len(thr[t].cb.posted)
       \/ ~Finished(t) /\ Finished(t)' /\ thr'[t].cb.chain = 0

\* C20: once uninstall() has returned and until the next install() starts,
\* the hook procedure has no side effect, also when a call of it was in
\* flight while uninstall() ran: no notification is emitted, no scroll
\* message is posted and no event is consumed.
C20_NoEffectAfterUninstall ==
    [][AfterUninstall => \A t \in Tids : ~SideEffect(t)]_vars

====
